---- MODULE Spec2Model ----
(***************************************************************************)
(* Model of the chat backend: the conversation store (SQLite tables        *)
(* conversations and messages), the reply generator (LLMService) and the   *)
(* two chat routes, POST /chat/message and GET /chat/history/:sessionId.   *)
(*                                                                         *)
(* Texts are sequences of one-character strings, so that length, trim and  *)
(* substring are computed as the code computes them.  Conversation ids are *)
(* numbers: randomUUID() is modelled as the next unused number, and        *)
(* ForeignId stands for a well-formed UUID that randomUUID() never         *)
(* returns.  Timestamps are numbers read from the millisecond clock `now`, *)
(* which only moves when Tick fires, so two reads of the clock can agree.  *)
(* The program only compares timestamps, so milliseconds in which nothing  *)
(* is written are left out.                                                *)
(***************************************************************************)
EXTENDS Integers, Sequences, FiniteSets, TLC

VARIABLES conversations, messages, now, geminiKey, llmServiceInstance, req,
          apiKey, dataReq, lastCall, widget, localStorage

vars == <<conversations, messages, now, geminiKey, llmServiceInstance, req,
          apiKey, dataReq, lastCall, widget, localStorage>>

(***************************************************************************)
(* Bounds of the model.                                                    *)
(***************************************************************************)
MaxReqs == 2
MaxTime == 1
PreMsgs == 10
MaxDataReqs == 2
MaxRows == 3
MaxSends == 2
MaxReloads == 1

(***************************************************************************)
(* Program constants.                                                      *)
(***************************************************************************)
MAX_MESSAGE_LENGTH == 2000
MAX_HISTORY_MESSAGES == 10

Reqs == 1..MaxReqs
ForeignId == 0
NoConv == -1
NoRow == 0

(***************************************************************************)
(* Texts.                                                                  *)
(***************************************************************************)
Rep(c, n) == [i \in 1..n |-> c]

IsSpace(c) == c \in {" ", "\t", "\n"}

RECURSIVE TrimStart(_)
TrimStart(s) ==
  IF s # <<>> /\ IsSpace(Head(s)) THEN TrimStart(Tail(s)) ELSE s

RECURSIVE TrimEnd(_)
TrimEnd(s) ==
  IF s # <<>> /\ IsSpace(s[Len(s)]) THEN TrimEnd(SubSeq(s, 1, Len(s) - 1)) ELSE s

\* String.prototype.trim
Trim(s) == TrimEnd(TrimStart(s))

Substring0Whole(s, n) == s

\* String.prototype.substring(0, n)
Substring0(s, n) == SubSeq(s, 1, IF n < Len(s) THEN n ELSE Len(s))

Ellipsis == <<".", ".", ".">>

Hi == <<"h", "i">>
Blank == <<" ">>
Longest == Rep("x", MAX_MESSAGE_LENGTH)
TooLong == Rep("x", MAX_MESSAGE_LENGTH + 1)
Answer == <<"o", "k">>
PaddedAnswer == <<" ", "o", "k", "\n">>

\* The fixed reply of the route's catch block ("I apologize, but I'm
\* experiencing technical difficulties ..."), abbreviated.
FallbackReply == <<"s", "o", "r", "r", "y">>

(***************************************************************************)
(* Request payloads.  A body field is undefined or a string; a sessionId   *)
(* string is well-formed (matches the UUID pattern) or not.                *)
(***************************************************************************)
NoMessage == [given |-> FALSE, text |-> <<>>]
Message(t) == [given |-> TRUE, text |-> t]

NoSession == [given |-> FALSE, wellFormed |-> FALSE, id |-> NoConv]
BadSession == [given |-> TRUE, wellFormed |-> FALSE, id |-> NoConv]
Session(i) == [given |-> TRUE, wellFormed |-> TRUE, id |-> i]

MessageOkUnbounded(m) == m.given /\ Len(m.text) >= 1

\* messageSchema: message: z.string().min(1).max(2000)
MessageOkStrict(m) == m.given /\ Len(m.text) >= 1 /\ Len(m.text) < MAX_MESSAGE_LENGTH
MessageOk(m) == m.given /\ Len(m.text) >= 1 /\ Len(m.text) <= MAX_MESSAGE_LENGTH

\* messageSchema: sessionId: z.string().uuid().optional()
SessionOk(s) == ~s.given \/ s.wellFormed

SchemaOkNoSession(m, s) == MessageOk(m)
SchemaOk(m, s) == MessageOk(m) /\ SessionOk(s)

\* the pattern test of the history route
UuidTest(s) == s.given /\ s.wellFormed

(***************************************************************************)
(* The conversation store.  db is [conversations, messages]:               *)
(* conversations maps the id of each row to [createdAt, updatedAt];        *)
(* messages is the table in insertion (rowid) order.                       *)
(***************************************************************************)
Db == [conversations |-> conversations, messages |-> messages]

\* randomUUID() of createConversation
NewConversationId(db) == Cardinality(DOMAIN db.conversations) + 1

\* randomUUID() of addMessage
NewMessageId(db) == Len(db.messages) + 1

InsertConversation(db, id, t) ==
  [db EXCEPT !.conversations =
     [c \in DOMAIN db.conversations \cup {id} |->
        IF c = id THEN [createdAt |-> t, updatedAt |-> t]
                  ELSE db.conversations[c]]]

\* fault names the statement that the storage makes throw, "none" for none
CreateConversation(db, t, fault) ==
  IF fault = "createConversation"
  THEN [ok |-> FALSE, db |-> db, id |-> NoConv]
  ELSE [ok |-> TRUE, db |-> InsertConversation(db, NewConversationId(db), t),
        id |-> NewConversationId(db)]

\* null is NoConv
GetConversation(db, conversationId) ==
  IF conversationId \in DOMAIN db.conversations THEN conversationId ELSE NoConv

GetOrCreateAdopt(db, s, t, fault) ==
  IF s.given /\ fault = "getConversation"
  THEN [ok |-> FALSE, db |-> db, id |-> NoConv, created |-> FALSE]
  ELSE IF s.given /\ GetConversation(db, s.id) # NoConv
  THEN [ok |-> TRUE, db |-> db, id |-> s.id, created |-> FALSE]
  ELSE IF s.given
  THEN [ok |-> TRUE, db |-> InsertConversation(db, s.id, t), id |-> s.id,
        created |-> TRUE]
  ELSE CreateConversation(db, t, fault) @@ [created |-> TRUE]

GetOrCreateAlways(db, s, t, fault) ==
  CreateConversation(db, t, fault) @@ [created |-> TRUE]

GetOrCreateConversation(db, s, t, fault) ==
  IF s.given /\ fault = "getConversation"
  THEN [ok |-> FALSE, db |-> db, id |-> NoConv, created |-> FALSE]
  ELSE IF s.given /\ GetConversation(db, s.id) # NoConv
  THEN [ok |-> TRUE, db |-> db, id |-> s.id, created |-> FALSE]
  ELSE CreateConversation(db, t, fault) @@ [created |-> TRUE]

Row(id, conversationId, sender, text, t) ==
  [id |-> id, conversationId |-> conversationId, sender |-> sender,
   text |-> text, timestamp |-> t]

AddMessageNoForeignKey(db, conversationId, sender, text, t, fault) ==
  IF fault = "insert"
  THEN [ok |-> FALSE, db |-> db, id |-> NoRow]
  ELSE LET id == NewMessageId(db)
           inserted == [db EXCEPT !.messages =
                          Append(@, Row(id, conversationId, sender, text, t))]
       IN  IF fault = "update"
           THEN [ok |-> FALSE, db |-> inserted, id |-> id]
           ELSE [ok |-> TRUE, id |-> id,
                 db |-> IF conversationId \in DOMAIN db.conversations
                        THEN [inserted EXCEPT
                                !.conversations[conversationId].updatedAt = t]
                        ELSE inserted]

\* INSERT INTO messages, then UPDATE conversations SET updatedAt; the foreign
\* key makes the insert throw when the conversation does not exist
AddMessage(db, conversationId, sender, text, t, fault) ==
  IF fault = "insert" \/ conversationId \notin DOMAIN db.conversations
  THEN [ok |-> FALSE, db |-> db, id |-> NoRow]
  ELSE LET id == NewMessageId(db)
           inserted == [db EXCEPT !.messages =
                          Append(@, Row(id, conversationId, sender, text, t))]
       IN  IF fault = "update"
           THEN [ok |-> FALSE, db |-> inserted, id |-> id]
           ELSE [ok |-> TRUE,
                 db |-> [inserted EXCEPT
                           !.conversations[conversationId].updatedAt = t],
                 id |-> id]

RowsOf(db, conversationId) ==
  {db.messages[i] : i \in {j \in 1..Len(db.messages) :
                             db.messages[j].conversationId = conversationId}}

RECURSIVE Orders(_)
\* every arrangement of a set of rows
Orders(rows) ==
  IF rows = {} THEN {<<>>}
  ELSE UNION {{<<x>> \o rest : rest \in Orders(rows \ {x})} : x \in rows}

RECURSIVE OrderByTimestamp(_)
\* ORDER BY timestamp ASC: rows of equal timestamp come in an order the
\* query does not determine
OrderByTimestamp(rows) ==
  IF rows = {} THEN {<<>>}
  ELSE LET least == CHOOSE t \in {x.timestamp : x \in rows} :
                      \A x \in rows : t <= x.timestamp
           first == {x \in rows : x.timestamp = least}
       IN  UNION {{g \o rest : rest \in OrderByTimestamp(rows \ first)} :
                  g \in Orders(first)}

GetMessagesWindow(db, conversationId) ==
  {SubSeq(h, IF Len(h) > 10 THEN Len(h) - 9 ELSE 1, Len(h)) :
     h \in OrderByTimestamp(RowsOf(db, conversationId))}

GetMessagesAll(db, conversationId) ==
  OrderByTimestamp({db.messages[i] : i \in 1..Len(db.messages)})

\* the set of results SELECT * FROM messages WHERE conversationId = ?
\* ORDER BY timestamp ASC can give
GetMessages(db, conversationId) == OrderByTimestamp(RowsOf(db, conversationId))

(***************************************************************************)
(* The reply generator (LLMService).                                       *)
(***************************************************************************)
\* Error messages are sequences of words; includes() looks for a word.
Includes(message, word) == \E i \in 1..Len(message) : message[i] = word

KeyNotSet == <<"GEMINI_API_KEY", "environment", "variable", "is", "not", "set">>
EmptyMessage == <<"Message", "cannot", "be", "empty">>
EmptyResponse == <<"Empty", "response", "from", "LLM">>

GetLLMServiceUncached(instance, key) ==
  IF key THEN [ok |-> TRUE, instance |-> FALSE]
  ELSE [ok |-> FALSE, instance |-> FALSE]

\* getLLMService: the cached instance, or a new LLMService(), whose
\* constructor throws when GEMINI_API_KEY is not set
GetLLMService(instance, key) ==
  IF instance THEN [ok |-> TRUE, instance |-> TRUE]
  ELSE IF key THEN [ok |-> TRUE, instance |-> TRUE]
  ELSE [ok |-> FALSE, instance |-> FALSE]

RecentHistoryOldest(history) ==
  SubSeq(history, 1,
         IF Len(history) < MAX_HISTORY_MESSAGES THEN Len(history)
         ELSE MAX_HISTORY_MESSAGES)

RecentHistoryAll(history) == history

\* conversationHistory.slice(-MAX_HISTORY_MESSAGES)
RecentHistory(history) ==
  SubSeq(history,
         IF Len(history) > MAX_HISTORY_MESSAGES
         THEN Len(history) - MAX_HISTORY_MESSAGES + 1 ELSE 1,
         Len(history))

RoleOf(sender) == IF sender = "user" THEN "Customer" ELSE "Support Agent"

\* recentHistory.map(msg => `${role}: ${msg.text}`), one line per message
HistoryText(recentHistory) ==
  [i \in 1..Len(recentHistory) |->
     <<RoleOf(recentHistory[i].sender), recentHistory[i].text>>]

StartOfConversation == <<"", <<"s", "t", "a", "r", "t">>>>

NoPrompt == [previous |-> <<>>, customer |-> <<>>]

\* the prompt: the lines of the previous conversation (or the start marker)
\* and the final Customer turn; DOMAIN_KNOWLEDGE is a fixed text
Prompt(historyText, userMessage) ==
  [previous |-> IF historyText = <<>> THEN <<StartOfConversation>>
                ELSE historyText,
   customer |-> userMessage]

GenerateReplyCallUntrimmed(userMessage, conversationHistory) ==
  IF Len(userMessage) = 0
  THEN [sent |-> FALSE, error |-> EmptyMessage, recentHistory |-> <<>>,
        prompt |-> NoPrompt]
  ELSE LET recentHistory == RecentHistory(conversationHistory)
       IN  [sent |-> TRUE, error |-> <<>>, recentHistory |-> recentHistory,
            prompt |-> Prompt(HistoryText(recentHistory), userMessage)]

\* generateReply up to the call of model.generateContent(prompt)
GenerateReplyCall(userMessage, conversationHistory) ==
  IF Len(userMessage) = 0 \/ Len(Trim(userMessage)) = 0
  THEN [sent |-> FALSE, error |-> EmptyMessage, recentHistory |-> <<>>,
        prompt |-> NoPrompt]
  ELSE LET sentMessage ==
             IF Len(userMessage) > MAX_MESSAGE_LENGTH
             THEN Substring0(userMessage, MAX_MESSAGE_LENGTH) \o Ellipsis
             ELSE userMessage
           recentHistory == RecentHistory(conversationHistory)
       IN  [sent |-> TRUE, error |-> <<>>, recentHistory |-> recentHistory,
            prompt |-> Prompt(HistoryText(recentHistory), sentMessage)]

\* What the provider does with the prompt: it answers a text or throws.
TextOutcome(t) == [kind |-> "text", text |-> t, message |-> <<>>, code |-> ""]
ErrorOutcome(m, c) == [kind |-> "error", text |-> <<>>, message |-> m, code |-> c]

ProviderOutcomes ==
  {TextOutcome(PaddedAnswer), TextOutcome(Blank),
   ErrorOutcome(<<"fetch", "failed">>, "")}

\* the catch block of generateReply: the Error it throws for a caught error
Rethrown(message, code) ==
  IF Includes(message, "API_KEY")
  THEN <<"Invalid", "API", "key.", "Please", "check", "your",
         "GEMINI_API_KEY", "environment", "variable.">>
  ELSE IF Includes(message, "quota") \/ Includes(message, "rate limit")
  THEN <<"API", "rate limit", "exceeded.">>
  ELSE IF Includes(message, "timeout") \/ code = "ETIMEDOUT"
  THEN <<"Request", "timed", "out.">>
  ELSE IF message # <<>> THEN message
  ELSE <<"Failed", "to", "generate", "reply.">>

GenerateReplyResultUnchecked(outcome) ==
  IF outcome.kind = "text"
  THEN [ok |-> TRUE, reply |-> Trim(outcome.text), error |-> <<>>]
  ELSE [ok |-> FALSE, reply |-> <<>>,
        error |-> Rethrown(outcome.message, outcome.code)]

\* generateReply from the provider's outcome on: trim, the empty check, and
\* the catch block
GenerateReplyResult(outcome) ==
  IF outcome.kind = "text"
  THEN LET reply == Trim(outcome.text)
       IN  IF Len(reply) = 0
           THEN [ok |-> FALSE, reply |-> <<>>,
                 error |-> Rethrown(EmptyResponse, "")]
           ELSE [ok |-> TRUE, reply |-> reply, error |-> <<>>]
  ELSE [ok |-> FALSE, reply |-> <<>>,
        error |-> Rethrown(outcome.message, outcome.code)]

(***************************************************************************)
(* Requests.  req[r] is one HTTP request: what it was sent with, the       *)
(* locals of its handler while it waits for the generator, and its         *)
(* response.                                                               *)
(***************************************************************************)
NewRequest ==
  [pc |-> "new", kind |-> "none", message |-> NoMessage, sessionId |-> NoSession,
   conv |-> NoConv, created |-> FALSE, userMsg |-> NoRow, aiMsg |-> NoRow,
   history |-> <<>>, recentHistory |-> <<>>, prompt |-> NoPrompt,
   gen |-> "none", llmError |-> <<>>, fault |-> FALSE,
   status |-> 0, reply |-> <<>>, respSessionId |-> NoConv, respCreatedAt |-> 0,
   respMessages |-> <<>>]

\* the response is sent and the handler's locals are gone
Respond(r0, status) ==
  [r0 EXCEPT !.pc = "done", !.status = status, !.history = <<>>,
             !.recentHistory = <<>>, !.prompt = NoPrompt]

\* the outer catch of a route: 500
InternalError(r0) == Respond([r0 EXCEPT !.fault = TRUE], 500)

MessageInputs ==
  {NoMessage, Message(<<>>), Message(Hi), Message(Blank), Message(Longest),
   Message(TooLong)}

SessionInputs ==
  {NoSession, BadSession, Session(ForeignId)}
    \cup {Session(i) : i \in DOMAIN conversations}

StartFaults == {"none", "getConversation", "createConversation", "insert",
                "update", "getMessages"}

ResumeFaults == {"none", "insert", "update"}

ReadFaults == {"none", "getConversation", "getMessages"}

\* requests take the slots in the order of their arrival
Arrives(r) ==
  /\ req[r].pc = "new"
  /\ \A q \in Reqs : q < r => req[q].pc # "new"

Store(db) ==
  /\ conversations' = db.conversations
  /\ messages' = db.messages

\* llmService.generateReply(message, history) up to its first await: the
\* record of the handler that now waits for the promise
Generating(r0, svc, call) ==
  IF ~svc.ok
  THEN [r0 EXCEPT !.pc = "awaiting", !.gen = "rejected", !.llmError = KeyNotSet]
  ELSE IF ~call.sent
  THEN [r0 EXCEPT !.pc = "awaiting", !.gen = "rejected",
                  !.llmError = Rethrown(call.error, "")]
  ELSE [r0 EXCEPT !.pc = "awaiting", !.gen = "pending",
                  !.recentHistory = call.recentHistory, !.prompt = call.prompt]

SaveUserMessageSkipped(db, conversationId, text, t, fault) ==
  [ok |-> TRUE, db |-> db, id |-> NoRow]

\* conversationService.addMessage(conversation.id, 'user', message)
SaveUserMessage(db, conversationId, text, t, fault) ==
  AddMessage(db, conversationId, "user", text, t, fault)

SaveAiReplyOnSuccess(db, conversationId, aiReply, t, fault) ==
  IF aiReply = FallbackReply THEN [ok |-> TRUE, db |-> db, id |-> NoRow]
  ELSE AddMessage(db, conversationId, "ai", aiReply, t, fault)

SaveAiReplyElsewhere(db, conversationId, aiReply, t, fault) ==
  LET c == CreateConversation(db, t, "none")
  IN  AddMessage(c.db, c.id, "ai", aiReply, t, fault)

\* conversationService.addMessage(conversation.id, 'ai', aiReply)
SaveAiReply(db, conversationId, aiReply, t, fault) ==
  AddMessage(db, conversationId, "ai", aiReply, t, fault)

(***************************************************************************)
(* POST /chat/message, from the arrival of the request to the await of     *)
(* llmService.generateReply (or to the response, when it ends before).     *)
(***************************************************************************)
PostMessage(r, m, s, fault) ==
  /\ Arrives(r)
  /\ LET r0 == [req[r] EXCEPT !.kind = "post", !.message = m, !.sessionId = s]
     IN  IF ~SchemaOk(m, s)
         THEN /\ fault = "none"
              /\ req' = [req EXCEPT ![r] = Respond(r0, 400)]
              /\ UNCHANGED <<conversations, messages, llmServiceInstance>>
         ELSE LET c == GetOrCreateConversation(Db, s, now, fault)
                  a == SaveUserMessage(c.db, c.id, m.text, now, fault)
                  r1 == [r0 EXCEPT !.conv = c.id, !.created = c.created]
                  r2 == [r1 EXCEPT !.userMsg = a.id]
              IN  IF ~c.ok
                  THEN /\ req' = [req EXCEPT ![r] = InternalError(r0)]
                       /\ Store(c.db)
                       /\ UNCHANGED llmServiceInstance
                  ELSE IF ~a.ok
                  THEN /\ req' = [req EXCEPT ![r] = InternalError(r2)]
                       /\ Store(a.db)
                       /\ UNCHANGED llmServiceInstance
                  ELSE IF fault = "getMessages"
                  THEN /\ req' = [req EXCEPT ![r] = InternalError(r2)]
                       /\ Store(a.db)
                       /\ UNCHANGED llmServiceInstance
                  ELSE /\ fault = "none"
                       /\ \E history \in GetMessages(a.db, c.id) :
                            LET svc == GetLLMService(llmServiceInstance, geminiKey)
                                call == GenerateReplyCall(m.text, history)
                            IN  /\ req' = [req EXCEPT ![r] =
                                     Generating([r2 EXCEPT !.history = history],
                                                svc, call)]
                                /\ llmServiceInstance' = svc.instance
                       /\ Store(a.db)
  /\ UNCHANGED <<now, geminiKey>>

AiReplyErrorMessage(result) ==
  IF result.ok THEN result.reply ELSE result.error

\* the inner try/catch of the route: the generator's reply, or the fixed
\* text when generateReply threw
AiReply(result) == IF result.ok THEN result.reply ELSE FallbackReply

FinishedFailing(q, db, t, result, fault) ==
  LET a == SaveAiReply(db, q.conv, result.reply, t, fault)
      r1 == [q EXCEPT !.gen = IF result.ok THEN "ok" ELSE "failed",
                      !.llmError = result.error]
  IN  IF result.ok /\ a.ok
      THEN [req |-> [Respond([r1 EXCEPT !.aiMsg = a.id], 200)
                       EXCEPT !.reply = result.reply, !.respSessionId = q.conv],
            db |-> a.db]
      ELSE [req |-> InternalError(r1), db |-> IF result.ok THEN a.db ELSE db]

(***************************************************************************)
(* POST /chat/message from the settling of the generator's promise on:     *)
(* the fallback on failure, the AI message, the response.                  *)
(***************************************************************************)
Finished(q, db, t, result, fault) ==
  LET aiReply == AiReply(result)
      a == SaveAiReply(db, q.conv, aiReply, t, fault)
      r1 == [q EXCEPT !.gen = IF result.ok THEN "ok" ELSE "failed",
                      !.llmError = result.error,
                      !.aiMsg = a.id]
  IN  [req |-> IF a.ok
               THEN [Respond(r1, 200) EXCEPT !.reply = aiReply,
                                             !.respSessionId = q.conv]
               ELSE InternalError(r1),
       db |-> a.db]

Finish(r, result, fault) ==
  LET f == Finished(req[r], Db, now, result, fault)
  IN  /\ req' = [req EXCEPT ![r] = f.req]
      /\ Store(f.db)

\* the provider has answered or thrown
PostSettled(r, outcome, fault) ==
  /\ req[r].pc = "awaiting"
  /\ req[r].gen = "pending"
  /\ Finish(r, GenerateReplyResult(outcome), fault)
  /\ UNCHANGED <<now, geminiKey, llmServiceInstance>>

\* the promise was rejected before the provider was called
PostRejected(r, fault) ==
  /\ req[r].pc = "awaiting"
  /\ req[r].gen = "rejected"
  /\ Finish(r, [ok |-> FALSE, reply |-> <<>>, error |-> req[r].llmError], fault)
  /\ UNCHANGED <<now, geminiKey, llmServiceInstance>>

(***************************************************************************)
(* GET /chat/history/:sessionId                                            *)
(***************************************************************************)
GetHistory(r, s, fault) ==
  /\ Arrives(r)
  /\ s.given
  /\ LET r0 == [req[r] EXCEPT !.kind = "get", !.sessionId = s]
         c == GetConversation(Db, s.id)
     IN  IF ~UuidTest(s)
         THEN /\ fault = "none"
              /\ req' = [req EXCEPT ![r] = Respond(r0, 400)]
         ELSE IF fault = "getConversation"
         THEN req' = [req EXCEPT ![r] = InternalError(r0)]
         ELSE IF c = NoConv
         THEN /\ fault = "none"
              /\ req' = [req EXCEPT ![r] = Respond(r0, 404)]
         ELSE IF fault = "getMessages"
         THEN req' = [req EXCEPT ![r] = InternalError(r0)]
         ELSE \E msgs \in GetMessages(Db, s.id) :
                req' = [req EXCEPT ![r] =
                  [Respond(r0, 200) EXCEPT !.respSessionId = c,
                     !.respCreatedAt = conversations[c].createdAt,
                     !.respMessages = msgs]]
  /\ UNCHANGED <<conversations, messages, now, geminiKey, llmServiceInstance>>

\* the clock has been read in this millisecond
Stamped ==
  \/ \E c \in DOMAIN conversations :
       now \in {conversations[c].createdAt, conversations[c].updatedAt}
  \/ \E i \in 1..Len(messages) : messages[i].timestamp = now

\* the clock moves on to the next millisecond
Tick ==
  /\ Stamped
  /\ now < MaxTime
  /\ now' = now + 1
  /\ UNCHANGED <<conversations, messages, geminiKey, llmServiceInstance, req>>

(***************************************************************************)
(* The parts of the system that the chat routes never touch, at rest: no   *)
(* API_KEY in the environment, no request to a data route, no direct call  *)
(* of the store, and a page of the widget that was opened with nothing in  *)
(* localStorage and is left alone.                                         *)
(***************************************************************************)
others == <<apiKey, dataReq, lastCall, widget, localStorage>>

NoKey == ""

DataReqs == 1..MaxDataReqs

NewDataRequest ==
  [pc |-> "new", endpoint |-> "none", header |-> NoKey, query |-> NoKey,
   id |-> NoSession, reached |-> FALSE, status |-> 0, items |-> 0]

NoCall ==
  [op |-> "none", conversationId |-> NoConv, ok |-> TRUE, id |-> NoRow,
   inserted |-> 0]

\* a fetch of the widget that has not been started
NoFetch == [pc |-> "idle", slot |-> 0, session |-> NoConv]

\* the component's variables after the page has loaded and onMount has run;
\* forgot records that a loadHistory has failed and no send was started since
NewWidget(savedSessionId) ==
  [messages |-> <<>>, sessionId |-> NoConv, isLoading |-> FALSE,
   error |-> FALSE,
   mount |-> IF savedSessionId = NoConv THEN NoFetch
             ELSE [pc |-> "getTransit", slot |-> 0,
                   session |-> savedSessionId],
   send |-> NoFetch, sends |-> 0, reloads |-> 0, forgot |-> FALSE]

AtRest ==
  /\ apiKey = NoKey
  /\ dataReq = [d \in DataReqs |-> NewDataRequest]
  /\ lastCall = NoCall
  /\ widget = NewWidget(NoConv)
  /\ localStorage = NoConv

(***************************************************************************)
(* The server starts on an empty database, with or without GEMINI_API_KEY. *)
(***************************************************************************)
Init ==
  /\ conversations = <<>>
  /\ messages = <<>>
  /\ now = 0
  /\ geminiKey \in BOOLEAN
  /\ llmServiceInstance = FALSE
  /\ req = [r \in Reqs |-> NewRequest]
  /\ AtRest

Next ==
  \/ \E r \in Reqs, m \in MessageInputs, s \in SessionInputs, f \in StartFaults :
       PostMessage(r, m, s, f) /\ UNCHANGED others
  \/ \E r \in Reqs, o \in ProviderOutcomes, f \in ResumeFaults :
       PostSettled(r, o, f) /\ UNCHANGED others
  \/ \E r \in Reqs, f \in ResumeFaults :
       PostRejected(r, f) /\ UNCHANGED others
  \/ \E r \in Reqs, s \in SessionInputs, f \in ReadFaults :
       GetHistory(r, s, f) /\ UNCHANGED others
  \/ Tick /\ UNCHANGED others

Spec == Init /\ [][Next]_vars

(***************************************************************************)
(* The server starts on a database file that earlier runs have left: one   *)
(* conversation of PreMsgs messages, user and ai in turn, each in a        *)
(* millisecond of its own, the last of them in the current one.            *)
(***************************************************************************)
PreloadedMessages ==
  [i \in 1..PreMsgs |->
     Row(i, 1, IF i % 2 = 1 THEN "user" ELSE "ai",
         IF i % 2 = 1 THEN Hi ELSE Answer, i - PreMsgs)]

InitLong ==
  /\ conversations = (1 :> [createdAt |-> 1 - PreMsgs, updatedAt |-> 0])
  /\ messages = PreloadedMessages
  /\ now = 0
  /\ geminiKey \in BOOLEAN
  /\ llmServiceInstance = FALSE
  /\ req = [r \in Reqs |-> NewRequest]
  /\ AtRest

SpecLong == InitLong /\ [][Next]_vars

(***************************************************************************)
(* The conversation store called directly: conversationService is an       *)
(* exported object, and createConversation and addMessage take whatever    *)
(* arguments their caller passes.  lastCall is what the latest call        *)
(* returned (ok is FALSE when it threw) and how many rows it left behind.  *)
(***************************************************************************)
CreateFaults == {"none", "createConversation"}

WriteFaults == {"none", "insert", "update"}

\* the ids a caller can name: those in the store, and two that are not
NamedIds == DOMAIN conversations \cup {ForeignId, NewConversationId(Db)}

CallCreateConversation(fault) ==
  /\ Cardinality(DOMAIN conversations) < MaxRows
  /\ LET c == CreateConversation(Db, now, fault)
     IN  /\ Store(c.db)
         /\ lastCall' = [op |-> "createConversation", conversationId |-> c.id,
                         ok |-> c.ok, id |-> NoRow, inserted |-> 0]
  /\ UNCHANGED <<now, geminiKey, llmServiceInstance, req,
                 apiKey, dataReq, widget, localStorage>>

CallAddMessage(conversationId, sender, text, fault) ==
  /\ Len(messages) < MaxRows
  /\ LET a == AddMessage(Db, conversationId, sender, text, now, fault)
     IN  /\ Store(a.db)
         /\ lastCall' = [op |-> "addMessage", conversationId |-> conversationId,
                         ok |-> a.ok, id |-> a.id,
                         inserted |-> Len(a.db.messages) - Len(messages)]
  /\ UNCHANGED <<now, geminiKey, llmServiceInstance, req,
                 apiKey, dataReq, widget, localStorage>>

InitStore ==
  /\ conversations = <<>>
  /\ messages = <<>>
  /\ now = 0
  /\ geminiKey = FALSE
  /\ llmServiceInstance = FALSE
  /\ req = [r \in Reqs |-> NewRequest]
  /\ AtRest

NextStore ==
  \/ \E f \in CreateFaults : CallCreateConversation(f)
  \/ \E c \in NamedIds, sender \in {"user", "ai"}, f \in WriteFaults :
       CallAddMessage(c, sender, Hi, f)
  \/ Tick /\ UNCHANGED others

SpecStore == InitStore /\ [][NextStore]_vars

(***************************************************************************)
(* The provider may never answer.  generateReply awaits                    *)
(* model.generateContent(prompt) with no timeout and no abort signal, so   *)
(* a call the provider leaves open stays open: gen = "hung" marks a call   *)
(* whose promise never settles.  In SpecLive every promise that does       *)
(* settle has its continuation run (the event loop is fair), and every     *)
(* call that is not left open is answered.                                 *)
(***************************************************************************)
ProviderHangs(r) ==
  /\ req[r].pc = "awaiting"
  /\ req[r].gen = "pending"
  /\ req' = [req EXCEPT ![r].gen = "hung"]
  /\ UNCHANGED <<conversations, messages, now, geminiKey, llmServiceInstance>>

NextLive ==
  \/ Next
  \/ \E r \in Reqs : ProviderHangs(r) /\ UNCHANGED others

Settles(r) ==
  \E o \in ProviderOutcomes, f \in ResumeFaults :
    PostSettled(r, o, f) /\ UNCHANGED others

Rejects(r) == \E f \in ResumeFaults : PostRejected(r, f) /\ UNCHANGED others

Fairness == \A r \in Reqs : WF_vars(Settles(r)) /\ WF_vars(Rejects(r))

SpecLive == Init /\ [][NextLive]_vars /\ Fairness

(***************************************************************************)
(* The data routes, GET /data/conversations, /data/conversations/:id,      *)
(* /data/messages and /data/stats, and the middleware mounted in front of  *)
(* them.  A key is NoKey when the header, the query parameter or the       *)
(* API_KEY variable is absent.  Requests carry no limit, offset or filter. *)
(* The rate limiter lets every request of the model pass: there are far    *)
(* fewer of them than its window allows.                                   *)
(***************************************************************************)
Keys == {NoKey, "secret", "wrong"}

ConfiguredKeys == {NoKey, "secret"}

Endpoints == {"conversations", "conversation", "messages", "stats"}

\* apiKeyAuth(req, res, next): next() or the 401 response
ApiKeyAuth(header, query, validApiKey) ==
  LET key == IF header # NoKey THEN header ELSE query
  IN  IF validApiKey = NoKey THEN "next"
      ELSE IF key # NoKey /\ key = validApiKey THEN "next"
      ELSE "401"

\* what app.use mounts on /data, in the order of the calls
DataStack == <<"limiter", "dataRoutes">>

\* the request is passed on by every middleware mounted before the router
ReachesDataRoutes(header, query, validApiKey) ==
  \A i \in 1..Len(DataStack) :
    DataStack[i] = "apiKeyAuth" => ApiKeyAuth(header, query, validApiKey) = "next"

\* the handler of the router: the status and the number of rows it returns
DataHandler(db, endpoint, id, fault) ==
  IF endpoint = "conversation" /\ ~UuidTest(id)
  THEN [status |-> 400, items |-> 0]
  ELSE IF fault # "none"
  THEN [status |-> 500, items |-> 0]
  ELSE IF endpoint = "conversations"
  THEN [status |-> 200, items |-> Cardinality(DOMAIN db.conversations)]
  ELSE IF endpoint = "conversation"
  THEN IF GetConversation(db, id.id) = NoConv
       THEN [status |-> 404, items |-> 0]
       ELSE [status |-> 200, items |-> Cardinality(RowsOf(db, id.id))]
  ELSE [status |-> 200, items |-> Len(db.messages)]

DataRequest(d, endpoint, header, query, id, fault) ==
  /\ dataReq[d].pc = "new"
  /\ \A e \in DataReqs : e < d => dataReq[e].pc # "new"
  /\ (endpoint = "conversation") = id.given
  /\ LET r0 == [NewDataRequest EXCEPT !.pc = "done", !.endpoint = endpoint,
                                     !.header = header, !.query = query,
                                     !.id = id]
         h == DataHandler(Db, endpoint, id, fault)
     IN  IF ReachesDataRoutes(header, query, apiKey)
         THEN dataReq' = [dataReq EXCEPT ![d] =
                [r0 EXCEPT !.reached = TRUE, !.status = h.status,
                           !.items = h.items]]
         ELSE /\ fault = "none"
              /\ dataReq' = [dataReq EXCEPT ![d] = [r0 EXCEPT !.status = 401]]
  /\ UNCHANGED <<conversations, messages, now, geminiKey, llmServiceInstance,
                 req, apiKey, lastCall, widget, localStorage>>

\* the server runs on the database earlier runs have left, with or without
\* API_KEY in its environment
InitData ==
  /\ conversations = (1 :> [createdAt |-> 1 - PreMsgs, updatedAt |-> 0])
  /\ messages = PreloadedMessages
  /\ now = 0
  /\ geminiKey \in BOOLEAN
  /\ llmServiceInstance = FALSE
  /\ req = [r \in Reqs |-> NewRequest]
  /\ apiKey \in ConfiguredKeys
  /\ dataReq = [d \in DataReqs |-> NewDataRequest]
  /\ lastCall = NoCall
  /\ widget = NewWidget(NoConv)
  /\ localStorage = NoConv

NextData ==
  \E d \in DataReqs, endpoint \in Endpoints, header \in Keys, query \in Keys,
     id \in SessionInputs, f \in {"none", "read"} :
    DataRequest(d, endpoint, header, query, id, f)

SpecData == InitData /\ [][NextData]_vars

(***************************************************************************)
(* The chat widget (ChatWidget.svelte) and its two calls of the backend    *)
(* (api.ts).  widget holds the component's variables and the positions of  *)
(* its two asynchronous functions: mount is the loadHistory that onMount   *)
(* starts, send is handleSend with the loadHistory it awaits.  A fetch is  *)
(* in transit until the server takes the request into a slot, and waiting  *)
(* until the response is there; the slot is free again when the response   *)
(* has been taken.  A reload throws the page's variables away: fetches in  *)
(* transit are aborted, requests already at the server run on unheard.     *)
(* The text typed is Hi; typing nothing makes handleSend return at once.   *)
(* sends and reloads count the user's actions up to MaxSends, MaxReloads.  *)
(***************************************************************************)
TempId == -2

\* the optimistic message of handleSend
TempMessage == Row(TempId, widget.sessionId, "user", Hi, now)

NotTemp(m) == m.id # TempId

\* sessionId || undefined, as JSON.stringify leaves it in the body
SessionArg(sessionId) ==
  IF sessionId = NoConv THEN NoSession ELSE Session(sessionId)

\* the slots whose response a function of the page still waits for
Held ==
  {widget[who].slot : who \in {w \in {"mount", "send"} :
                                 widget[w].pc \in {"postWaiting", "getWaiting"}}}

Release(r) == req' = [req EXCEPT ![r] = NewRequest]

server == <<conversations, messages, now, geminiKey, llmServiceInstance, req>>

\* handleSend up to its fetch
HandleSend ==
  /\ ~widget.isLoading
  /\ widget.sends < MaxSends
  /\ widget' = [widget EXCEPT
       !.error = FALSE,
       !.messages = Append(@, TempMessage),
       !.isLoading = TRUE,
       !.send = [pc |-> "postTransit", slot |-> 0, session |-> widget.sessionId],
       !.sends = @ + 1,
       !.forgot = FALSE]
  /\ UNCHANGED <<server, apiKey, dataReq, lastCall, localStorage>>

\* the POST of sendMessage reaches the server
PostArrives(r, fault) ==
  /\ widget.send.pc = "postTransit"
  /\ PostMessage(r, Message(Hi), SessionArg(widget.send.session), fault)
  /\ widget' = [widget EXCEPT !.send.pc = "postWaiting", !.send.slot = r]
  /\ UNCHANGED <<apiKey, dataReq, lastCall, localStorage>>

\* the catch and the finally of handleSend
SendFailed(w) ==
  [w EXCEPT !.error = TRUE, !.messages = SelectSeq(@, NotTemp),
            !.isLoading = FALSE, !.send = NoFetch]

\* sendMessage has returned or thrown
PostReturns ==
  /\ widget.send.pc = "postWaiting"
  /\ req[widget.send.slot].pc = "done"
  /\ LET q == req[widget.send.slot]
     IN  IF q.status = 200
         THEN /\ widget' = [widget EXCEPT
                   !.sessionId = q.respSessionId,
                   !.send = [pc |-> "getTransit", slot |-> 0,
                             session |-> q.respSessionId]]
              /\ localStorage' = q.respSessionId
         ELSE /\ widget' = SendFailed(widget)
              /\ UNCHANGED localStorage
  /\ Release(widget.send.slot)
  /\ UNCHANGED <<conversations, messages, now, geminiKey, llmServiceInstance,
                 apiKey, dataReq, lastCall>>

\* the GET of getConversationHistory reaches the server
HistoryArrives(who, r, fault) ==
  /\ widget[who].pc = "getTransit"
  /\ GetHistory(r, Session(widget[who].session), fault)
  /\ widget' = [widget EXCEPT ![who].pc = "getWaiting", ![who].slot = r]
  /\ UNCHANGED <<apiKey, dataReq, lastCall, localStorage>>

\* the end of loadHistory, and of handleSend when it was awaiting it
Loaded(w, who) ==
  IF who = "send" THEN [w EXCEPT !.isLoading = FALSE, !.send = NoFetch]
  ELSE [w EXCEPT !.mount = NoFetch]

\* the catch of loadHistory
HistoryFailed(w, who) ==
  Loaded([w EXCEPT !.sessionId = NoConv, !.messages = <<>>, !.forgot = TRUE],
         who)

\* getConversationHistory has returned or thrown
HistoryReturns(who) ==
  /\ widget[who].pc = "getWaiting"
  /\ req[widget[who].slot].pc = "done"
  /\ LET q == req[widget[who].slot]
     IN  IF q.status = 200
         THEN /\ widget' = Loaded([widget EXCEPT
                                     !.messages = q.respMessages,
                                     !.sessionId = q.respSessionId], who)
              /\ localStorage' = q.respSessionId
         ELSE /\ widget' = HistoryFailed(widget, who)
              /\ localStorage' = NoConv
  /\ Release(widget[who].slot)
  /\ UNCHANGED <<conversations, messages, now, geminiKey, llmServiceInstance,
                 apiKey, dataReq, lastCall>>

\* fetch rejects: the request or its response is lost on the network
FetchFails(who) ==
  /\ widget[who].pc # "idle"
  /\ IF widget[who].pc \in {"postTransit", "postWaiting"}
     THEN /\ widget' = SendFailed(widget)
          /\ UNCHANGED localStorage
     ELSE /\ widget' = HistoryFailed(widget, who)
          /\ localStorage' = NoConv
  /\ UNCHANGED <<server, apiKey, dataReq, lastCall>>

\* the page is loaded again: the script's initial values, then onMount
Reload ==
  /\ widget.reloads < MaxReloads
  /\ widget' = [NewWidget(localStorage) EXCEPT
                  !.sends = widget.sends, !.reloads = widget.reloads + 1,
                  !.forgot = widget.forgot]
  /\ UNCHANGED <<server, apiKey, dataReq, lastCall, localStorage>>

\* clearChat, confirmed
ClearChat ==
  /\ widget' = [widget EXCEPT !.messages = <<>>, !.sessionId = NoConv,
                              !.error = FALSE]
  /\ localStorage' = NoConv
  /\ UNCHANGED <<server, apiKey, dataReq, lastCall>>

\* a response nobody waits for any more
DropResponse(r) ==
  /\ req[r].pc = "done"
  /\ r \notin Held
  /\ Release(r)
  /\ UNCHANGED <<conversations, messages, now, geminiKey, llmServiceInstance,
                 others>>

InitWidget ==
  /\ conversations = <<>>
  /\ messages = <<>>
  /\ now = 0
  /\ geminiKey \in BOOLEAN
  /\ llmServiceInstance = FALSE
  /\ req = [r \in Reqs |-> NewRequest]
  /\ AtRest

NextWidget ==
  \/ HandleSend
  \/ \E r \in Reqs, f \in StartFaults : PostArrives(r, f)
  \/ \E r \in Reqs, o \in ProviderOutcomes, f \in ResumeFaults :
       PostSettled(r, o, f) /\ UNCHANGED others
  \/ \E r \in Reqs, f \in ResumeFaults :
       PostRejected(r, f) /\ UNCHANGED others
  \/ PostReturns
  \/ \E who \in {"mount", "send"}, r \in Reqs, f \in ReadFaults :
       HistoryArrives(who, r, f)
  \/ \E who \in {"mount", "send"} : HistoryReturns(who)
  \/ \E who \in {"mount", "send"} : FetchFails(who)
  \/ Reload
  \/ ClearChat
  \/ \E r \in Reqs : DropResponse(r)
  \/ Tick /\ UNCHANGED others

SpecWidget == InitWidget /\ [][NextWidget]_vars

(***************************************************************************)
(* The widget opened by a visitor who has chatted before: the store holds  *)
(* the conversation of that visit, a user message and its answer,          *)
(* localStorage holds its id, and onMount has started loadHistory.         *)
(***************************************************************************)
SavedMessages == SubSeq(PreloadedMessages, 1, 2)

InitWidgetSaved ==
  /\ conversations = (1 :> [createdAt |-> 1 - PreMsgs, updatedAt |-> 2 - PreMsgs])
  /\ messages = SavedMessages
  /\ now = 0
  /\ geminiKey \in BOOLEAN
  /\ llmServiceInstance = FALSE
  /\ req = [r \in Reqs |-> NewRequest]
  /\ apiKey = NoKey
  /\ dataReq = [d \in DataReqs |-> NewDataRequest]
  /\ lastCall = NoCall
  /\ widget = NewWidget(1)
  /\ localStorage = 1

SpecWidgetSaved == InitWidgetSaved /\ [][NextWidget]_vars

(***************************************************************************)
(* The generator called directly: llmService.generateReply(userMessage,    *)
(* conversationHistory) with any message, any history and any behaviour of *)
(* the provider.  A call is one step here, from getLLMService() to the     *)
(* settling of the promise; lastCall is what the caller gets and, for the  *)
(* claims, what was sent to the provider.                                  *)
(***************************************************************************)
ProviderErrors ==
  {ErrorOutcome(<<"API_KEY", "not", "valid">>, ""),
   ErrorOutcome(<<"quota", "exceeded">>, ""),
   ErrorOutcome(<<"rate limit", "reached">>, ""),
   ErrorOutcome(<<"timeout", "of", "socket">>, ""),
   ErrorOutcome(<<"connect">>, "ETIMEDOUT"),
   ErrorOutcome(<<"fetch", "failed">>, ""),
   ErrorOutcome(<<"500", "Internal", "error", "encountered.">>, ""),
   ErrorOutcome(<<>>, "")}

GeneratorOutcomes ==
  ProviderOutcomes \cup ProviderErrors \cup {TextOutcome(<<>>), TextOutcome(Answer)}

GeneratorMessages == {<<>>, Hi, Blank, Longest, TooLong}

GeneratorHistories ==
  {SubSeq(PreloadedMessages, 1, n) : n \in {0, 1, PreMsgs}}
    \cup {Append(PreloadedMessages, Row(PreMsgs + 1, 1, "user", Hi, 0))}

CallGenerateReply(userMessage, conversationHistory, outcome) ==
  /\ LET svc == GetLLMService(llmServiceInstance, geminiKey)
         call == GenerateReplyCall(userMessage, conversationHistory)
         sent == svc.ok /\ call.sent
         result == IF ~svc.ok
                   THEN [ok |-> FALSE, reply |-> <<>>, error |-> KeyNotSet]
                   ELSE IF ~call.sent
                   THEN [ok |-> FALSE, reply |-> <<>>,
                         error |-> Rethrown(call.error, "")]
                   ELSE GenerateReplyResult(outcome)
     IN  /\ lastCall' =
              [op |-> "generateReply", userMessage |-> userMessage,
               history |-> Len(conversationHistory),
               constructed |-> svc.ok, sent |-> sent,
               prompt |-> IF sent THEN call.prompt ELSE NoPrompt,
               outcome |-> outcome,
               ok |-> result.ok, reply |-> result.reply,
               error |-> result.error]
         /\ llmServiceInstance' = svc.instance
  /\ UNCHANGED <<conversations, messages, now, geminiKey, req,
                 apiKey, dataReq, widget, localStorage>>

InitGenerator ==
  /\ conversations = <<>>
  /\ messages = <<>>
  /\ now = 0
  /\ geminiKey \in BOOLEAN
  /\ llmServiceInstance = FALSE
  /\ req = [r \in Reqs |-> NewRequest]
  /\ AtRest

NextGenerator ==
  \E userMessage \in GeneratorMessages, history \in GeneratorHistories,
     outcome \in GeneratorOutcomes :
    CallGenerateReply(userMessage, history, outcome)

SpecGenerator == InitGenerator /\ [][NextGenerator]_vars

(***************************************************************************)
(* Vocabulary of the claims.                                               *)
(***************************************************************************)
IsPost(q) == q.kind = "post"
IsGet(q) == q.kind = "get"
Done(q) == q.pc = "done"

\* the payload a request was sent with is valid: a message of 1 to 2000
\* characters, and no sessionId or a well-formed one
ValidPayload(q) ==
  /\ q.message.given
  /\ Len(q.message.text) \in 1..2000
  /\ (q.sessionId.given => q.sessionId.wellFormed)

RowsIn(msgs, c) ==
  {msgs[i] : i \in {j \in 1..Len(msgs) : msgs[j].conversationId = c}}

RowWithId(msgs, id) == {msgs[i] : i \in {j \in 1..Len(msgs) : msgs[j].id = id}}

Extends(old, new) ==
  /\ Len(new) >= Len(old)
  /\ SubSeq(new, 1, Len(old)) = old

Added(old, new) == {new[i] : i \in (Len(old) + 1)..Len(new)}

\* request r takes a step of its handler
Arriving(r) == req[r].pc = "new" /\ req'[r].pc # "new"
Finishing(r) == req[r].pc = "awaiting" /\ req'[r].pc = "done"

(***************************************************************************)
(* C1: a POST /chat/message with a message of 1 to 2000 characters and an  *)
(* absent or well-formed sessionId, hit by no storage failure, is answered *)
(* 200 with a non-empty reply and the id of a conversation of the store,   *)
(* whatever the generator did.                                             *)
(***************************************************************************)
C1_ValidPostAnswered ==
  \A r \in Reqs :
    (IsPost(req[r]) /\ ValidPayload(req[r]) /\ ~req[r].fault)
      => /\ req[r].status \in {0, 200}
         /\ Done(req[r]) =>
              /\ req[r].status = 200
              /\ Len(req[r].reply) >= 1
              /\ req[r].respSessionId \in DOMAIN conversations

\* answered after the client could not be constructed, after the provider
\* failed, and after it answered a message of 2000 characters
C1_Witness ==
  /\ \E r \in Reqs : /\ Done(req[r]) /\ req[r].status = 200
                     /\ req[r].gen = "failed"
                     /\ Len(req[r].message.text) = 2000
  /\ \E r \in Reqs : /\ Done(req[r]) /\ req[r].status = 200
                     /\ req[r].gen = "ok"

(***************************************************************************)
(* C2: when the generator fails during a POST that created its             *)
(* conversation, the answer is 200 with the fallback text, and the         *)
(* conversation holds exactly 2 messages: the user's text verbatim and     *)
(* the fallback text as the ai message (no other request having used the   *)
(* conversation).                                                          *)
(***************************************************************************)
C2_FallbackPersisted ==
  \A r \in Reqs :
    (/\ IsPost(req[r]) /\ Done(req[r]) /\ req[r].created
     /\ req[r].gen = "failed" /\ ~req[r].fault
     /\ \A q \in Reqs \ {r} : req[q].conv # req[r].conv)
      => /\ req[r].status = 200
         /\ req[r].reply = <<"s", "o", "r", "r", "y">>
         /\ LET rows == RowsIn(messages, req[r].conv)
            IN  /\ Cardinality(rows) = 2
                /\ \E u \in rows : /\ u.sender = "user"
                                   /\ u.text = req[r].message.text
                /\ \E a \in rows : /\ a.sender = "ai"
                                   /\ a.text = <<"s", "o", "r", "r", "y">>

\* the provider threw, and the request was answered
C2_Witness ==
  \E r \in Reqs :
    /\ IsPost(req[r]) /\ Done(req[r]) /\ req[r].created /\ ~req[r].fault
    /\ req[r].gen = "failed"
    /\ req[r].llmError = <<"fetch", "failed">>
    /\ \A q \in Reqs \ {r} : req[q].conv # req[r].conv

(***************************************************************************)
(* C3: a POST with an invalid payload (message missing, empty or longer    *)
(* than 2000 characters, or a malformed sessionId) is answered 400 in one  *)
(* step that leaves conversations, messages and the generator untouched.   *)
(***************************************************************************)
C3_Step ==
  \A r \in Reqs :
    (Arriving(r) /\ IsPost(req'[r]) /\ ~ValidPayload(req'[r]))
      => /\ Done(req'[r])
         /\ req'[r].status = 400
         /\ req'[r].gen = "none"
         /\ conversations' = conversations
         /\ messages' = messages
         /\ llmServiceInstance' = llmServiceInstance

\* C3: every step of a POST with an invalid payload is a 400 that changes nothing
C3_InvalidPostRejected == [][C3_Step]_vars

\* a too long message and a malformed sessionId were rejected on a store
\* that holds messages
C3_Witness ==
  /\ messages # <<>>
  /\ \E r \in Reqs : /\ IsPost(req[r]) /\ req[r].status = 400
                     /\ \/ Len(req[r].message.text) > 2000
                        \/ /\ req[r].sessionId.given
                           /\ ~req[r].sessionId.wellFormed
                           /\ Len(req[r].message.text) \in 1..2000

(***************************************************************************)
(* C4: when every POST that has arrived has completed with 200, every      *)
(* conversation holds, per completed POST that resolved to it, one user    *)
(* message and one ai message, and nothing else.                           *)
(***************************************************************************)
PostsOf(c) == {r \in Reqs : IsPost(req[r]) /\ Done(req[r]) /\ req[r].conv = c}

C4_TwoPerRequest ==
  (\A r \in Reqs : IsPost(req[r]) => (Done(req[r]) /\ req[r].status = 200))
    => /\ \A c \in DOMAIN conversations :
            /\ Cardinality({x \in RowsIn(messages, c) : x.sender = "user"})
                 = Cardinality(PostsOf(c))
            /\ Cardinality({x \in RowsIn(messages, c) : x.sender = "ai"})
                 = Cardinality(PostsOf(c))
       /\ Len(messages) = 2 * Cardinality({r \in Reqs : IsPost(req[r])})

\* two POSTs on one conversation have completed, one of them by fallback
C4_Witness ==
  /\ \A r \in Reqs : IsPost(req[r]) /\ Done(req[r]) /\ req[r].status = 200
  /\ \E c \in DOMAIN conversations : Cardinality(PostsOf(c)) = 2
  /\ \E r \in Reqs : req[r].gen = "failed"
  /\ \E r \in Reqs : req[r].gen = "ok"

(***************************************************************************)
(* C5: whenever the generator has been invoked for a POST, and from then   *)
(* on to the end of the request and after, the store holds the user        *)
(* message of that request: sender user, the submitted text, in the        *)
(* request's conversation.                                                 *)
(***************************************************************************)
C5_UserMessageKept ==
  \A r \in Reqs :
    (IsPost(req[r]) /\ req[r].gen # "none")
      => \E x \in RowWithId(messages, req[r].userMsg) :
           /\ x.sender = "user"
           /\ x.text = req[r].message.text
           /\ x.conversationId = req[r].conv

\* one request waits for the provider, another has ended by fallback after
\* the client could not be constructed or the provider failed
C5_Witness ==
  \E r, q \in Reqs :
    /\ req[r].pc = "awaiting"
    /\ Done(req[q]) /\ req[q].gen = "failed"

(***************************************************************************)
(* C6: a POST that supplies the sessionId an earlier POST returned         *)
(* resolves to that conversation: in each step of its handler no           *)
(* conversation is created, the messages it inserts come after the ones    *)
(* the store held (none of them changed), belong to that conversation and  *)
(* are not older than its earlier ones, and its 200 response carries the   *)
(* same sessionId.                                                         *)
(***************************************************************************)
ReturnedEarlier(r, id) ==
  \E q \in Reqs \ {r} :
    /\ IsPost(req[q]) /\ Done(req[q])
    /\ req[q].status = 200 /\ req[q].respSessionId = id

C6_Step ==
  \A r \in Reqs :
    LET b == req'[r]
        sid == b.sessionId.id
        added == Added(messages, messages')
    IN  (/\ Arriving(r) \/ Finishing(r)
         /\ IsPost(b) /\ ValidPayload(b) /\ b.sessionId.given
         /\ ReturnedEarlier(r, sid))
          => /\ b.conv = sid \/ (b.fault /\ b.conv = NoConv)
             /\ DOMAIN conversations' = DOMAIN conversations
             /\ Extends(messages, messages')
             /\ \A x \in added :
                  /\ x.conversationId = sid
                  /\ \A y \in RowsIn(messages, sid) :
                       y.timestamp <= x.timestamp /\ y.id # x.id
             /\ ~b.fault => Cardinality(added) = 1
             /\ (Done(b) /\ ~b.fault) =>
                  (b.status = 200 /\ b.respSessionId = sid)

\* C6: every step of a POST sent with a returned sessionId stays in that conversation
C6_SameConversation == [][C6_Step]_vars

\* a second POST, sent with the id the first one returned, has been
\* answered, and the conversation holds the four messages
C6_Witness ==
  \E q, r \in Reqs :
    /\ q # r
    /\ IsPost(req[q]) /\ Done(req[q]) /\ req[q].status = 200
    /\ IsPost(req[r]) /\ Done(req[r]) /\ req[r].status = 200
    /\ req[r].sessionId = Session(req[q].respSessionId)
    /\ req[q].aiMsg < req[r].userMsg
    /\ Cardinality(RowsIn(messages, req[r].respSessionId)) = 4

(***************************************************************************)
(* C7: a POST that supplies a well-formed sessionId naming no conversation *)
(* creates exactly one conversation, with an id of the store's own, puts   *)
(* its messages there and answers 200 with that id; no conversation with   *)
(* the supplied id exists then or later.                                   *)
(***************************************************************************)
C7_Step ==
  \A r \in Reqs :
    LET a == req[r]
        b == req'[r]
        sid == b.sessionId.id
        added == Added(messages, messages')
    IN  /\ (/\ Arriving(r) /\ IsPost(b) /\ ValidPayload(b)
            /\ b.sessionId.given /\ sid \notin DOMAIN conversations)
             => /\ IF b.conv = NoConv
                   THEN b.fault /\ DOMAIN conversations' = DOMAIN conversations
                   ELSE /\ b.created
                        /\ b.conv \notin DOMAIN conversations
                        /\ b.conv # sid
                        /\ DOMAIN conversations'
                             = DOMAIN conversations \cup {b.conv}
                /\ Extends(messages, messages')
                /\ \A x \in added : /\ x.conversationId = b.conv
                                    /\ x.sender = "user"
                                    /\ x.text = b.message.text
                /\ ~b.fault => Cardinality(added) = 1
        /\ (/\ Finishing(r) /\ IsPost(a) /\ a.sessionId.given /\ a.created)
             => /\ b.conv = a.conv
                /\ DOMAIN conversations' = DOMAIN conversations
                /\ Extends(messages, messages')
                /\ \A x \in added : x.conversationId = a.conv /\ x.sender = "ai"
                /\ ~b.fault => /\ Cardinality(added) = 1
                               /\ b.status = 200
                               /\ b.respSessionId = a.conv
        /\ (IsPost(b) /\ b.sessionId.given /\ b.created)
             => sid \notin DOMAIN conversations'

\* C7: every step of a POST sent with an unknown sessionId works on one new conversation
C7_UnknownSessionCreates == [][C7_Step]_vars

\* a POST sent with an unknown well-formed id has been answered 200
C7_Witness ==
  \E r \in Reqs :
    /\ IsPost(req[r]) /\ Done(req[r]) /\ req[r].status = 200
    /\ req[r].sessionId = Session(ForeignId)
    /\ req[r].created
    /\ req[r].respSessionId \in DOMAIN conversations

(***************************************************************************)
(* C8: when the prompt is sent for a conversation that holds n messages,   *)
(* its history lines are min(n, 10) messages of that conversation, each    *)
(* rendered with its role and text, in non-decreasing timestamp order,     *)
(* and no message left out is newer than one that is in; never more than   *)
(* 10 lines.                                                               *)
(***************************************************************************)
C8_Step ==
  \A r \in Reqs :
    LET b == req'[r]
        rows == RowsIn(messages', b.conv)
        n == Cardinality(rows)
        w == b.recentHistory
        lines == b.prompt.previous
    IN  (Arriving(r) /\ IsPost(b) /\ b.gen = "pending")
          => /\ Len(lines) = (IF n < 10 THEN n ELSE 10)
             /\ Len(w) = Len(lines)
             /\ \A i \in 1..Len(w) :
                  /\ w[i] \in rows
                  /\ lines[i] = <<IF w[i].sender = "user" THEN "Customer"
                                  ELSE "Support Agent", w[i].text>>
                  /\ \A j \in (i + 1)..Len(w) :
                       w[i] # w[j] /\ w[i].timestamp <= w[j].timestamp
                  /\ \A x \in rows \ {w[k] : k \in 1..Len(w)} :
                       x.timestamp <= w[i].timestamp

\* C8: every prompt sent holds the newest min(n, 10) messages, oldest first
C8_PromptWindow == [][C8_Step]_vars

\* a prompt of 10 lines was sent for a conversation of more than 10
\* messages, and one of fewer lines for a new conversation
C8_Witness ==
  \E r, q \in Reqs :
    /\ req[r].gen = "pending"
    /\ Len(req[r].prompt.previous) = 10
    /\ Cardinality(RowsIn(messages, req[r].conv)) > 10
    /\ req[q].gen = "pending"
    /\ Len(req[q].prompt.previous) \in 1..9

(***************************************************************************)
(* C9: getMessages returns the messages of a conversation in the order of  *)
(* their insertion, also when two of them have the same timestamp: every   *)
(* 200 response of GET /chat/history lists them so, and after one POST on  *)
(* a new conversation it lists the user message and then the ai message.   *)
(***************************************************************************)
InInsertionOrder(m) ==
  \A i, j \in 1..Len(m) : i < j => m[i].id < m[j].id

C9_InsertionOrder ==
  \A r \in Reqs :
    (IsGet(req[r]) /\ req[r].status = 200)
      => /\ InInsertionOrder(req[r].respMessages)
         /\ (\E q \in Reqs :
               /\ IsPost(req[q]) /\ req[q].status = 200 /\ req[q].created
               /\ req[q].conv = req[r].sessionId.id
               /\ Len(req[r].respMessages) = 2)
              => /\ req[r].respMessages[1].sender = "user"
                 /\ req[r].respMessages[2].sender = "ai"

(***************************************************************************)
(* C10: in every 200 response of GET /chat/history/{sessionId}, every      *)
(* message has the requested sessionId as its conversationId, and the      *)
(* timestamps do not decrease along the sequence.                          *)
(***************************************************************************)
C10_HistoryOfSession ==
  \A r \in Reqs :
    (IsGet(req[r]) /\ req[r].status = 200)
      => LET m == req[r].respMessages
         IN  /\ req[r].respSessionId = req[r].sessionId.id
             /\ \A i \in 1..Len(m) :
                  /\ m[i].conversationId = req[r].sessionId.id
                  /\ \A j \in (i + 1)..Len(m) :
                       m[i].timestamp <= m[j].timestamp

\* the history of one conversation was returned while the store held the
\* messages of two
C10_Witness ==
  \E r \in Reqs :
    /\ IsGet(req[r]) /\ req[r].status = 200
    /\ Len(req[r].respMessages) >= 2
    /\ \E i \in 1..Len(messages) :
         messages[i].conversationId # req[r].sessionId.id

(***************************************************************************)
(* C11: in every state, for every conversation that has a message, the     *)
(* conversation's updatedAt is at least the timestamp of the message       *)
(* inserted last.                                                          *)
(***************************************************************************)
LastInserted(msgs, c) ==
  msgs[CHOOSE i \in 1..Len(msgs) :
         /\ msgs[i].conversationId = c
         /\ \A j \in (i + 1)..Len(msgs) : msgs[j].conversationId # c]

C11_UpdatedAtCoversLast ==
  \A c \in DOMAIN conversations :
    RowsIn(messages, c) # {}
      => conversations[c].updatedAt >= LastInserted(messages, c).timestamp

(***************************************************************************)
(* C12: the two writes of addMessage are atomic: every step that puts a    *)
(* message into a conversation also sets that conversation's updatedAt to  *)
(* the message's timestamp, whatever the outcome of addMessage, and no     *)
(* step changes an updatedAt without putting a message there.              *)
(***************************************************************************)
C12_Step ==
  /\ \A x \in Added(messages, messages') :
       conversations'[x.conversationId].updatedAt = x.timestamp
  /\ \A c \in DOMAIN conversations :
       conversations'[c].updatedAt # conversations[c].updatedAt
         => \E x \in Added(messages, messages') : x.conversationId = c

\* C12: every step of the store writes the message and updatedAt together
C12_AtomicAddMessage == [][C12_Step]_vars

(***************************************************************************)
(* C13: every message in the store names a conversation of the store, and  *)
(* an addMessage that names a conversation that is not there throws and    *)
(* inserts nothing.                                                        *)
(***************************************************************************)
C13_ReferentialIntegrity ==
  /\ \A i \in 1..Len(messages) :
       messages[i].conversationId \in DOMAIN conversations
  /\ lastCall.op = "addMessage"
       /\ lastCall.conversationId \notin DOMAIN conversations
       => ~lastCall.ok /\ lastCall.inserted = 0 /\ lastCall.id = NoRow

C13_Witness ==
  /\ lastCall.op = "addMessage"
  /\ lastCall.conversationId \notin DOMAIN conversations
  /\ ~lastCall.ok
  /\ conversations # <<>>
  /\ \E i \in 1..Len(messages) : messages[i].conversationId \in DOMAIN conversations

(***************************************************************************)
(* C14: every POST that has persisted its user message is answered in the  *)
(* end, also when the provider never answers the generation call.          *)
(***************************************************************************)
C14_EventuallyAnswered ==
  \A r \in Reqs :
    (IsPost(req[r]) /\ req[r].userMsg # NoRow) ~> Done(req[r])

(***************************************************************************)
(* C15: from the same store and the same request at its await, the run in  *)
(* which the generator succeeds and the run in which it fails end alike:   *)
(* the same status (200 when the storage holds), the same response fields, *)
(* the same sessionId, the same conversations and the same rows but for    *)
(* the text of the AI message, which is the reply of the response in both. *)
(***************************************************************************)
ResultsOfGenerator ==
  {GenerateReplyResult(o) : o \in ProviderOutcomes}
    \cup {[ok |-> FALSE, reply |-> <<>>, error |-> KeyNotSet]}

Untexted(msgs) == [i \in 1..Len(msgs) |-> [msgs[i] EXCEPT !.text = <<>>]]

SameButText(q, x, y, fault) ==
  LET a == Finished(q, Db, now, x, fault)
      b == Finished(q, Db, now, y, fault)
  IN  /\ a.req.status = b.req.status
      /\ fault = "none" => a.req.status = 200
      /\ a.req.respSessionId = b.req.respSessionId
      /\ (a.req.reply = <<>>) = (b.req.reply = <<>>)
      /\ a.db.conversations = b.db.conversations
      /\ Len(a.db.messages) = Len(b.db.messages)
      /\ Untexted(a.db.messages) = Untexted(b.db.messages)
      /\ fault = "none" =>
           /\ Len(a.db.messages) = Len(messages) + 1
           /\ a.req.reply = a.db.messages[Len(a.db.messages)].text
           /\ b.req.reply = b.db.messages[Len(b.db.messages)].text
           /\ b.req.reply = FallbackReply

C15_SameButText ==
  \A r \in Reqs :
    req[r].pc = "awaiting" =>
      \A x, y \in ResultsOfGenerator, f \in ResumeFaults :
        x.ok /\ ~y.ok => SameButText(req[r], x, y, f)

C15_Witness ==
  \E r, q \in Reqs :
    /\ Done(req[r]) /\ req[r].status = 200 /\ req[r].gen = "ok"
    /\ Done(req[q]) /\ req[q].status = 200 /\ req[q].gen = "failed"
    /\ req[r].reply # req[q].reply
    /\ Cardinality(RowsIn(messages, req[r].conv)) >= 2
    /\ Cardinality(RowsIn(messages, req[q].conv)) >= 2

(***************************************************************************)
(* C16: GET /chat/history/{sessionId} changes nothing in the store, and    *)
(* answers 400 for an id that is not a UUID, 404 for a UUID of no          *)
(* conversation, and otherwise 200 with every message of the conversation, *)
(* however many there are; only a failing read of the store makes it 500.  *)
(***************************************************************************)
C16_Step ==
  \A r \in Reqs :
    LET b == req'[r]
        s == b.sessionId
        rows == RowsIn(messages, s.id)
        m == b.respMessages
    IN  (Arriving(r) /\ IsGet(b))
          => /\ conversations' = conversations
             /\ messages' = messages
             /\ llmServiceInstance' = llmServiceInstance
             /\ Done(b)
             /\ b.status \in {200, 400, 404, 500}
             /\ b.status = 500 <=> b.fault
             /\ b.status = 400 <=> ~s.wellFormed
             /\ b.status = 404 =>
                  s.wellFormed /\ s.id \notin DOMAIN conversations
             /\ b.status = 200 =>
                  /\ s.id \in DOMAIN conversations
                  /\ b.respSessionId = s.id
                  /\ Len(m) = Cardinality(rows)
                  /\ {m[i] : i \in 1..Len(m)} = rows
             /\ b.status # 200 => m = <<>>
             /\ (s.wellFormed /\ s.id \in DOMAIN conversations)
                  => b.status \in {200, 500}

\* C16: the history route reads only, and answers 400, 404 or the whole
\* transcript
C16_HistoryReadOnly == [][C16_Step]_vars

\* a transcript of more than 10 messages was returned whole
C16_Witness ==
  \E r \in Reqs :
    /\ IsGet(req[r]) /\ req[r].status = 200
    /\ Len(req[r].respMessages) > MAX_HISTORY_MESSAGES
    /\ Len(req[r].respMessages) =
         Cardinality(RowsIn(messages, req[r].sessionId.id))

(***************************************************************************)
(* C17: when API_KEY is configured, a request to a data route that carries *)
(* the key neither in the X-API-Key header nor in the apiKey query         *)
(* parameter is answered 401 and reaches no data handler; when it is not   *)
(* configured every request reaches its handler.                           *)
(***************************************************************************)
C17_DataNeedsKey ==
  \A d \in DataReqs :
    dataReq[d].pc = "done" =>
      /\ (apiKey # NoKey /\ dataReq[d].header # apiKey
                         /\ dataReq[d].query # apiKey)
           => dataReq[d].status = 401 /\ ~dataReq[d].reached
      /\ apiKey = NoKey => dataReq[d].reached

(***************************************************************************)
(* C18: the conversation survives a reload of the page: as long as         *)
(* localStorage holds the session id a successful send has saved, every    *)
(* send of the widget, also the first after a reload, is made with that    *)
(* session id.                                                             *)
(***************************************************************************)
C18_Step ==
  (widget.send.pc = "idle" /\ widget'.send.pc = "postTransit"
     /\ localStorage # NoConv)
    => widget'.send.session = localStorage

\* C18: a send never leaves the saved session
C18_SavedSessionUsed == [][C18_Step]_vars

IsBlank(t) == Len(Trim(t)) = 0

C21_NoBlankAiMessage ==
  /\ \A i \in 1..Len(messages) :
       messages[i].sender = "ai" => ~IsBlank(messages[i].text)
  /\ \A r \in Reqs :
       (IsPost(req[r]) /\ req[r].status = 200) => ~IsBlank(req[r].reply)
  /\ \A o \in ProviderOutcomes \cup {TextOutcome(<<>>)} :
       (o.kind = "text" /\ IsBlank(o.text))
         => /\ ~GenerateReplyResult(o).ok
            /\ GenerateReplyResult(o).error = EmptyResponse

\* the provider answered a blank text and the fallback was persisted
C21_Witness ==
  \E r \in Reqs :
    /\ Done(req[r]) /\ req[r].status = 200 /\ req[r].gen = "failed"
    /\ req[r].llmError = EmptyResponse
    /\ \E x \in RowWithId(messages, req[r].aiMsg) :
         x.sender = "ai" /\ x.text = FallbackReply

(***************************************************************************)
(* C22: every failure that reaches the caller of llmService.generateReply  *)
(* is one of the six kinds of the taxonomy, a missing API key gives        *)
(* InvalidCredentials, and nothing of the provider's own error is passed   *)
(* through.                                                                *)
(***************************************************************************)
InvalidCredentials ==
  <<"Invalid", "API", "key.", "Please", "check", "your", "GEMINI_API_KEY",
    "environment", "variable.">>
RateLimited == <<"API", "rate limit", "exceeded.">>
Timeout == <<"Request", "timed", "out.">>
ProviderError == <<"Failed", "to", "generate", "reply.">>

Taxonomy ==
  {InvalidCredentials, RateLimited, Timeout, EmptyResponse, EmptyMessage,
   ProviderError}

C22_ClosedTaxonomy ==
  (lastCall.op = "generateReply" /\ ~lastCall.ok)
    => /\ lastCall.error \in Taxonomy
       /\ ~lastCall.constructed => lastCall.error = InvalidCredentials
       /\ (lastCall.sent /\ lastCall.outcome.kind = "error"
             /\ lastCall.outcome.message # <<>>)
            => lastCall.error # lastCall.outcome.message

(***************************************************************************)
(* C23: the generator client does not exist at startup; it is constructed  *)
(* by the first call of generateReply that finds GEMINI_API_KEY, at most   *)
(* once, and is kept from then on; a call that cannot construct it fails   *)
(* alone: the cache stays empty, the request goes on to its fallback and   *)
(* is answered, and the next call tries again.                             *)
(***************************************************************************)
CallsGenerator(r) == Arriving(r) /\ IsPost(req'[r]) /\ req'[r].gen # "none"

C23_Step ==
  /\ llmServiceInstance => llmServiceInstance'
  /\ llmServiceInstance' # llmServiceInstance
       => geminiKey /\ \E r \in Reqs : CallsGenerator(r)
  /\ \A r \in Reqs :
       CallsGenerator(r)
         => /\ llmServiceInstance' = geminiKey
            /\ req'[r].pc = "awaiting"
            /\ ~geminiKey <=> (req'[r].gen = "rejected"
                                 /\ req'[r].llmError = KeyNotSet)
  /\ \A r \in Reqs :
       (Finishing(r) /\ req[r].llmError = KeyNotSet /\ ~req'[r].fault)
         => req'[r].status = 200 /\ req'[r].reply = FallbackReply

\* C23: one lazy construction, reused; a failed one is retried
C23_LazySingleton == ~llmServiceInstance /\ [][C23_Step]_vars

\* two calls were made on the one instance
C23_Witness ==
  \E r, q \in Reqs :
    /\ r # q
    /\ llmServiceInstance
    /\ req[r].gen \in {"pending", "ok", "failed"}
    /\ req[q].gen \in {"pending", "ok", "failed"}
    /\ req[r].llmError # KeyNotSet /\ req[q].llmError # KeyNotSet

(***************************************************************************)
(* C24: two POST /chat/message with the same existing sessionId, both      *)
(* valid and hit by no storage failure, are both processed: both answer    *)
(* 200 with that sessionId, no conversation is created, four messages are  *)
(* appended to the conversation, and in the transcript as getMessages      *)
(* retrieves it each request's user message comes before its AI message.   *)
(***************************************************************************)
Position(h, id) == CHOOSE i \in 1..Len(h) : h[i].id = id

C24_BothProcessed ==
  \A r, q \in Reqs :
    (/\ r < q
     /\ IsPost(req[r]) /\ IsPost(req[q]) /\ Done(req[r]) /\ Done(req[q])
     /\ ValidPayload(req[r]) /\ ValidPayload(req[q])
     /\ ~req[r].fault /\ ~req[q].fault
     /\ req[r].sessionId = Session(1) /\ req[q].sessionId = Session(1))
      => /\ req[r].status = 200 /\ req[q].status = 200
         /\ req[r].respSessionId = 1 /\ req[q].respSessionId = 1
         /\ DOMAIN conversations = {1}
         /\ Cardinality(RowsIn(messages, 1)) = PreMsgs + 4
         /\ Cardinality({req[r].userMsg, req[r].aiMsg, req[q].userMsg,
                         req[q].aiMsg} \ {NoRow}) = 4
         /\ \A h \in GetMessages(Db, 1) :
              /\ Position(h, req[r].userMsg) < Position(h, req[r].aiMsg)
              /\ Position(h, req[q].userMsg) < Position(h, req[q].aiMsg)

(***************************************************************************)
(* C25: generateReply called with a message of more than 2000 characters   *)
(* does not fail for its length: the Customer turn it sends is the first   *)
(* 2000 characters followed by '...'; a message of at most 2000 characters *)
(* is sent as it is.                                                       *)
(***************************************************************************)
C25_TruncatedTurn ==
  lastCall.op = "generateReply" =>
    LET m == lastCall.userMessage
        long == Len(m) > MAX_MESSAGE_LENGTH
    IN  /\ (lastCall.constructed /\ long)
             => /\ lastCall.sent
                /\ lastCall.ok <=> (/\ lastCall.outcome.kind = "text"
                                    /\ Trim(lastCall.outcome.text) # <<>>)
        /\ (lastCall.sent /\ long)
             => /\ Len(lastCall.prompt.customer) = MAX_MESSAGE_LENGTH + 3
                /\ \A i \in 1..MAX_MESSAGE_LENGTH :
                     lastCall.prompt.customer[i] = m[i]
                /\ \A i \in 1..3 :
                     lastCall.prompt.customer[MAX_MESSAGE_LENGTH + i] = "."
        /\ (lastCall.sent /\ ~long) => lastCall.prompt.customer = m

\* a message of 2001 characters was sent cut, and answered
C25_Witness ==
  /\ lastCall.op = "generateReply"
  /\ Len(lastCall.userMessage) = MAX_MESSAGE_LENGTH + 1
  /\ lastCall.sent /\ lastCall.ok
  /\ Len(lastCall.prompt.customer) = MAX_MESSAGE_LENGTH + 3

(***************************************************************************)
(* C26: in every 200 response of POST /chat/message, reply is the text of  *)
(* the 'ai' message the request persisted, and sessionId is the            *)
(* conversationId of the 'user' and of the 'ai' message it persisted.      *)
(***************************************************************************)
C26_ResponseIsPersisted ==
  \A r \in Reqs :
    (IsPost(req[r]) /\ req[r].status = 200)
      => /\ \E u \in RowWithId(messages, req[r].userMsg) :
              /\ u.sender = "user"
              /\ u.text = req[r].message.text
              /\ u.conversationId = req[r].respSessionId
         /\ \E a \in RowWithId(messages, req[r].aiMsg) :
              /\ a.sender = "ai"
              /\ a.text = req[r].reply
              /\ a.conversationId = req[r].respSessionId
         /\ req[r].userMsg # req[r].aiMsg
         /\ req[r].respSessionId \in DOMAIN conversations

\* a reply of the generator and a fallback reply were both returned as stored
C26_Witness ==
  \E r, q \in Reqs :
    /\ IsPost(req[r]) /\ req[r].status = 200 /\ req[r].reply = Answer
    /\ IsPost(req[q]) /\ req[q].status = 200 /\ req[q].reply = FallbackReply
    /\ req[r].respSessionId # req[q].respSessionId

(***************************************************************************)
(* C27: a POST /chat/message whose message is whitespace-only (at least    *)
(* one character) passes validation, is persisted verbatim as a 'user'     *)
(* message, makes the generator fail on its empty-input check without a    *)
(* call to the provider, and ends with 200 and the fallback reply, which   *)
(* is persisted as the 'ai' message.                                       *)
(***************************************************************************)
WhitespaceOnly(r) ==
  /\ IsPost(req[r])
  /\ Len(req[r].message.text) >= 1
  /\ IsBlank(req[r].message.text)
  /\ SessionOk(req[r].sessionId)

\* what C27 says of one such request, but for the way the generator fails
WhitespaceOnlyHandled(r) ==
  /\ req[r].status # 400
  /\ req[r].gen # "pending"
  /\ req[r].pc = "awaiting"
       => /\ req[r].gen = "rejected"
          /\ \E u \in RowWithId(messages, req[r].userMsg) :
               u.sender = "user" /\ u.text = req[r].message.text
  /\ (Done(req[r]) /\ ~req[r].fault)
       => /\ req[r].status = 200
          /\ req[r].gen = "failed"
          /\ req[r].reply = FallbackReply
          /\ \E u \in RowWithId(messages, req[r].userMsg) :
               u.sender = "user" /\ u.text = req[r].message.text
          /\ \E a \in RowWithId(messages, req[r].aiMsg) :
               a.sender = "ai" /\ a.text = FallbackReply

\* as stated: the failure is always the one of the empty-input check
C27_FailsOnEmptyCheck ==
  \A r \in Reqs :
    WhitespaceOnly(r)
      => /\ WhitespaceOnlyHandled(r)
         /\ req[r].gen \in {"rejected", "failed"}
              => req[r].llmError = EmptyMessage

\* amended: the generator fails before any call to the provider, on the
\* empty-input check when the client could be constructed, and in the
\* construction of the client when GEMINI_API_KEY is not set
C27_FailsBeforeProvider ==
  \A r \in Reqs :
    WhitespaceOnly(r)
      => /\ WhitespaceOnlyHandled(r)
         /\ req[r].gen \in {"rejected", "failed"}
              => req[r].llmError = IF geminiKey THEN EmptyMessage ELSE KeyNotSet

C27_Witness ==
  \E r \in Reqs :
    /\ WhitespaceOnly(r) /\ Done(req[r]) /\ req[r].status = 200
    /\ req[r].llmError = EmptyMessage
    /\ req[r].reply = FallbackReply
    /\ \E a \in RowWithId(messages, req[r].aiMsg) : a.text = FallbackReply

\* the same request on a server without GEMINI_API_KEY
C27_WitnessNoKey ==
  \E r \in Reqs :
    /\ WhitespaceOnly(r) /\ Done(req[r]) /\ req[r].status = 200
    /\ req[r].llmError = KeyNotSet

(***************************************************************************)
(* C28: every userMessage the POST /chat/message handler hands to          *)
(* generateReply has between 1 and 2000 characters, so the generator's     *)
(* truncation branch never executes for a request of the endpoint: a       *)
(* message of more than 2000 characters is answered 400, it is never       *)
(* truncated and answered.                                                 *)
(***************************************************************************)
C28_NeverTruncated ==
  \A r \in Reqs :
    IsPost(req[r])
      => /\ req[r].gen # "none"
              => Len(req[r].message.text) \in 1..MAX_MESSAGE_LENGTH
         /\ req[r].gen = "pending"
              => req[r].prompt.customer = req[r].message.text
         /\ (req[r].message.given
               /\ Len(req[r].message.text) > MAX_MESSAGE_LENGTH)
              => /\ req[r].status = 400
                 /\ req[r].gen = "none"
                 /\ req[r].userMsg = NoRow /\ req[r].aiMsg = NoRow
                 /\ req[r].conv = NoConv
                 /\ \A i \in 1..Len(messages) :
                      Len(messages[i].text) <= MAX_MESSAGE_LENGTH

\* a message of 2001 characters was refused while one of 2000 is with the
\* provider as it was sent
C28_Witness ==
  \E r, q \in Reqs :
    /\ IsPost(req[r]) /\ req[r].message = Message(TooLong)
    /\ req[r].status = 400
    /\ IsPost(req[q]) /\ req[q].message = Message(Longest)
    /\ req[q].gen = "pending" /\ req[q].prompt.customer = Longest

(***************************************************************************)
(* C29: when the store fails while the AI message is persisted, the POST   *)
(* is answered 500 and nothing is rolled back: the conversation and the    *)
(* 'user' message of the request stay in the store, and the request leaves *)
(* no AI message after it.                                                 *)
(***************************************************************************)
AiPersistFails(r) ==
  /\ IsPost(req[r]) /\ Finishing(r)
  /\ ~req[r].fault /\ req'[r].fault

C29_Step ==
  \A r \in Reqs :
    AiPersistFails(r)
      => /\ req'[r].status = 500
         /\ conversations' = conversations
         /\ req[r].conv \in DOMAIN conversations'
         /\ Extends(messages, messages')
         /\ \E u \in RowWithId(messages', req[r].userMsg) :
              u.sender = "user" /\ u.conversationId = req[r].conv
         /\ Added(messages, messages') = {}

C29_UserMessageWithoutAi == [][C29_Step]_vars

(***************************************************************************)
(* C30: whenever a loadHistory of the widget fails, the one a send awaits  *)
(* included, sessionId becomes null, the saved id leaves localStorage and  *)
(* the shown messages are cleared, the send reports no error, and the next *)
(* send is made without a sessionId and so starts a new conversation.      *)
(***************************************************************************)
Loaders == {"mount", "send"}

\* the loadHistory of `who` ends in this step, in its catch
LoadFails(who) ==
  /\ widget[who].pc \in {"getTransit", "getWaiting"}
  /\ widget'[who].pc = "idle"
  /\ widget'.reloads = widget.reloads
  /\ \/ req' = req
     \/ req[widget[who].slot].status # 200

\* handleSend starts in this step
SendStarts == widget.send.pc = "idle" /\ widget'.send.pc = "postTransit"

\* the POST of the send is taken by the server in this step
SendArrives == widget.send.pc = "postTransit" /\ widget'.send.pc = "postWaiting"

C30_Step ==
  /\ \A who \in Loaders :
       LoadFails(who)
         => /\ widget'.sessionId = NoConv
            /\ localStorage' = NoConv
            /\ widget'.messages = <<>>
            /\ who = "send" => ~widget'.error /\ ~widget'.isLoading
  /\ (SendStarts /\ widget.forgot) => widget'.send.session = NoConv
  /\ (SendArrives /\ widget.send.session = NoConv
        /\ ~req'[widget'.send.slot].fault)
       => /\ req'[widget'.send.slot].sessionId = NoSession
          /\ req'[widget'.send.slot].created
          /\ req'[widget'.send.slot].conv \notin DOMAIN conversations

C30_ForgetsSession == [][C30_Step]_vars

====
